---- MODULE Spec2Model ----
(***************************************************************************)
(* A model of appveyor_artifacts.py: main() locates an AppVeyor build,     *)
(* polls its jobs until they finish and resolves the jobs' artifacts.      *)
(* Strings the program inspects character by character (validate) are      *)
(* sequences of one-character strings; opaque strings are TLA+ strings.    *)
(***************************************************************************)
EXTENDS Integers, Sequences, FiniteSets, TLC

---------------------------------------------------------------------------
(* Program constants *)

SLEEP_FOR == 5

LocateAttempts == 3

(* Bounds of the model *)

MaxBuilds == 2

MaxJobs == 2

MaxArtifacts == 1

MaxElapsed == 7

---------------------------------------------------------------------------
(* Characters and the regular expressions of validate *)

Digits == {"0", "1", "2", "3", "4", "5", "6", "7", "8", "9"}

HexLower == Digits \cup {"a", "b", "c", "d", "e", "f"}

Letters ==
    {"a", "b", "c", "d", "e", "f", "g", "h", "i", "j", "k", "l", "m",
     "n", "o", "p", "q", "r", "s", "t", "u", "v", "w", "x", "y", "z",
     "A", "B", "C", "D", "E", "F", "G", "H", "I", "J", "K", "L", "M",
     "N", "O", "P", "Q", "R", "S", "T", "U", "V", "W", "X", "Y", "Z"}

GeneralChars == Digits \cup Letters \cup {".", "_", "-"}

\* The part of s that a pattern ending in $ has to cover: $ also matches
\* just before one trailing newline.
BeforeDollar(s) ==
    IF Len(s) > 0 /\ s[Len(s)] = "\n" THEN SubSeq(s, 1, Len(s) - 1) ELSE s

AllIn(s, chars) == \A i \in 1..Len(s) : s[i] \in chars

\* REGEX_COMMIT = ^[0-9a-f]{7,40}$
REGEX_COMMIT(s) ==
    LET t == BeforeDollar(s)
    IN  Len(t) >= 7 /\ Len(t) <= 40 /\ AllIn(t, HexLower)

\* REGEX_GENERAL = ^[0-9a-zA-Z\._-]+$
REGEX_GENERAL(s) ==
    LET t == BeforeDollar(s)
    IN  Len(t) >= 1 /\ AllIn(t, GeneralChars)

\* str.isdigit(): non-empty and every character a digit.
isdigit(s) == Len(s) >= 1 /\ AllIn(s, Digits)

\* Truth value of a Python string.
Truthy(s) == s # <<>>

---------------------------------------------------------------------------
(* Values *)

\* None, as the value of a field that holds a character sequence otherwise.
NoneSeq == <<"None">>

\* None, as the value of build_version (an opaque string otherwise).
None == "None"

Sha1 == <<"a", "b", "c", "d", "e", "f", "0">>

Sha2 == <<"1", "2", "3", "4", "5", "6", "7">>

TagV1 == <<"v", "1">>

TagV2 == <<"v", "2">>

Pr7 == <<"7">>

Pr8 == <<"8">>

\* Build versions and job ids are opaque and unique in a response: the
\* element at position i carries the i-th name.
VersionAt == <<"ver1", "ver2", "ver3", "ver4">>

JobIdAt == <<"a", "b", "c", "d">>

\* Job names: the i-th job of a build reply has the i-th name.
JobNameAt == <<"n1", "n2", "n3", "n4">>

\* The seconds a round trip may take (of the 10 the request allows).
Rtts == {0, 1}

Statuses == {"queued", "running", "success", "failed", "weird"}

\* File names: the i-th artifact of a reply has the i-th name.
FileNameAt == <<"f1", "f2", "f3", "f4">>

---------------------------------------------------------------------------
(* The configuration (get_arguments' dictionary) *)

BaseConfig ==
    [always_job_dirs |-> FALSE, commit |-> Sha1, dir |-> <<>>, job_name |-> "",
     no_job_dirs |-> <<>>, owner |-> <<"o">>, pull_request |-> <<>>,
     repo |-> <<"r">>, tag |-> <<>>, timeout |-> <<>>]

NoJobDirsModes == {<<>>, <<"r", "e", "n", "a", "m", "e">>,
                   <<"o", "v", "e", "r", "w", "r", "i", "t", "e">>,
                   <<"s", "k", "i", "p">>}

\* A directory of the file system: the model has none but the working one.
isdir(d) == FALSE

\* validate: the first check that fails, or "ok".
validate(config) ==
    IF config.always_job_dirs /\ Truthy(config.no_job_dirs) THEN "contradiction"
    ELSE IF Truthy(config.commit) /\ ~REGEX_COMMIT(config.commit) THEN "commit"
    ELSE IF Truthy(config.dir) /\ ~isdir(config.dir) THEN "dir"
    ELSE IF config.no_job_dirs \notin NoJobDirsModes THEN "no_job_dirs"
    ELSE IF ~Truthy(config.owner) \/ ~REGEX_GENERAL(config.owner) THEN "owner"
    ELSE IF Truthy(config.pull_request) /\ ~isdigit(config.pull_request)
         THEN "pull_request"
    ELSE IF ~Truthy(config.repo) \/ ~REGEX_GENERAL(config.repo) THEN "repo"
    ELSE IF Truthy(config.tag) /\ ~REGEX_GENERAL(config.tag) THEN "tag"
    ELSE IF Truthy(config.timeout) /\ ~isdigit(config.timeout) THEN "timeout"
    ELSE "ok"

\* The identities a run is started with: a commit, alone or with the tag or
\* the pull request that triggered the build.
Identities ==
    {[commit |-> Sha1, tag |-> <<>>, pull_request |-> <<>>],
     [commit |-> Sha1, tag |-> TagV1, pull_request |-> <<>>],
     [commit |-> Sha1, tag |-> <<>>, pull_request |-> Pr7]}

Timeouts == {<<>>, <<"1">>}

JobNameFilters == {"", "n2"}

GoodConfigs ==
    {[BaseConfig EXCEPT !.commit = id.commit, !.tag = id.tag,
                        !.pull_request = id.pull_request,
                        !.job_name = jn, !.timeout = t] :
        id \in Identities, jn \in JobNameFilters, t \in Timeouts}

BadConfigs ==
    {[BaseConfig EXCEPT !.always_job_dirs = TRUE,
                        !.no_job_dirs = <<"s", "k", "i", "p">>],
     [BaseConfig EXCEPT !.commit = <<"a", "b", "c">>],
     [BaseConfig EXCEPT !.dir = <<"d">>],
     [BaseConfig EXCEPT !.no_job_dirs = <<"x">>],
     [BaseConfig EXCEPT !.owner = <<>>],
     [BaseConfig EXCEPT !.pull_request = <<"x">>],
     [BaseConfig EXCEPT !.repo = <<"r", "/">>],
     [BaseConfig EXCEPT !.tag = <<"v", " ">>],
     [BaseConfig EXCEPT !.timeout = <<"1", "s">>]}

\* A commit with a newline after its last digit, as a value read from a
\* file or a variable may have.
NewlineConfigs == {[BaseConfig EXCEPT !.commit = Sha1 \o <<"\n">>]}

Configs == GoodConfigs \cup BadConfigs \cup NewlineConfigs

---------------------------------------------------------------------------
(* Responses of the remote service *)

\* A response: the request timed out or failed in another way (no
\* connection), or came back with a status that is ok or not and a body that
\* parses as JSON (to json) or does not.
NoJson == [absent |-> TRUE]

FailedResponses ==
    {[kind |-> "timeout", is_json |-> FALSE, json |-> NoJson],
     [kind |-> "connection_error", is_json |-> FALSE, json |-> NoJson],
     [kind |-> "http_error", is_json |-> TRUE, json |-> NoJson],
     [kind |-> "http_error", is_json |-> FALSE, json |-> NoJson],
     [kind |-> "ok", is_json |-> FALSE, json |-> NoJson]}

OkResponse(json) == [kind |-> "ok", is_json |-> TRUE, json |-> json]

BuildFields ==
    [commitId : {Sha1, Sha2}, tag : {NoneSeq, TagV1, TagV2},
     pullRequestId : {NoneSeq, Pr7, Pr8}]

\* The builds arrays of a history reply: the i-th build has the i-th version.
Histories ==
    UNION {{[i \in 1..k |->
                [commitId |-> f[i].commitId, tag |-> f[i].tag,
                 pullRequestId |-> f[i].pullRequestId, version |-> VersionAt[i]]] :
            f \in [1..k -> BuildFields]} : k \in 0..MaxBuilds}

HistoryResponses ==
    FailedResponses
    \cup {OkResponse([has_builds |-> FALSE, builds |-> <<>>])}
    \cup {OkResponse([has_builds |-> TRUE, builds |-> h]) : h \in Histories}

\* The jobs arrays of a build reply: the i-th job has the i-th job id.
JobListings ==
    UNION {{[i \in 1..k |->
                [jobId |-> JobIdAt[i], name |-> JobNameAt[i], status |-> f[i]]] :
            f \in [1..k -> Statuses]} : k \in 0..MaxJobs}

BuildResponses ==
    FailedResponses
    \cup {OkResponse([has_build |-> FALSE, has_jobs |-> FALSE, jobs |-> <<>>]),
          OkResponse([has_build |-> TRUE, has_jobs |-> FALSE, jobs |-> <<>>])}
    \cup {OkResponse([has_build |-> TRUE, has_jobs |-> TRUE, jobs |-> l]) :
            l \in JobListings}

\* The names jobs may have when names are not bound to positions.
JobNames == {"n1", "n2"}

\* The jobs arrays of a build reply with any names, two jobs of one name
\* included.
NamedJobListings ==
    UNION {{[i \in 1..k |->
                [jobId |-> JobIdAt[i], name |-> f[i][1], status |-> f[i][2]]] :
            f \in [1..k -> JobNames \X Statuses]} : k \in 0..MaxJobs}

NamedBuildResponses ==
    BuildResponses
    \cup {OkResponse([has_build |-> TRUE, has_jobs |-> TRUE, jobs |-> l]) :
            l \in NamedJobListings}

ArtifactListings ==
    {[i \in 1..k |-> [fileName |-> FileNameAt[i]]] : k \in 0..MaxArtifacts}

ArtifactResponses ==
    FailedResponses \cup {OkResponse(l) : l \in ArtifactListings}

---------------------------------------------------------------------------
(* The functions of the program. Each returns [exc, log, ret]: the         *)
(* exception it raises ("none" when it returns), the last message it      *)
(* logged, and the value it returns.                                       *)

Return(v) == [exc |-> "none", log |-> "none", ret |-> v]

Raise(exc, log) == [exc |-> exc, log |-> log, ret |-> None]

\* query_api: one GET; HandledError on a timeout, a status that is not ok,
\* or a body that is not JSON. Only the timeouts of requests.get are caught:
\* its other exceptions leave query_api as they are. A status that is not ok
\* with a body that is not JSON raises ValueError from response.json() in
\* the error branch.
query_api(response) ==
    IF response.kind = "timeout" THEN Raise("HandledError", "api_timeout")
    ELSE IF response.kind = "connection_error"
         THEN Raise("ConnectionError", "none")
    ELSE IF response.kind # "ok"
         THEN IF response.is_json THEN Raise("HandledError", "api_http")
              ELSE Raise("ValueError", "none")
    ELSE IF response.is_json THEN Return(response.json)
    ELSE Raise("HandledError", "api_parse")

\* MatchKind without its pull-request branch.
MatchKind_NoPullRequest(config, build) ==
    IF Truthy(config.tag) /\ config.tag = build.tag THEN "tag"
    ELSE IF config.commit = build.commitId THEN "commit"
    ELSE "continue"

\* The branch of get_build_version's loop a build takes.
MatchKind(config, build) ==
    IF Truthy(config.tag) /\ config.tag = build.tag THEN "tag"
    ELSE IF Truthy(config.pull_request) /\ config.pull_request = build.pullRequestId
         THEN "pull_request"
    ELSE IF config.commit = build.commitId THEN "commit"
    ELSE "continue"

\* ScanBuilds that looks for a build with the tag among all builds first and
\* only then for the first build that matches at all.
ScanBuilds_TagFirst(config, builds, i) ==
    LET tagged == {j \in i..Len(builds) : MatchKind(config, builds[j]) = "tag"}
        any == {j \in i..Len(builds) : MatchKind(config, builds[j]) # "continue"}
        first(S) == CHOOSE j \in S : \A k \in S : j <= k
    IN  IF tagged # {}
        THEN [exc |-> "none", log |-> "tag", ret |-> builds[first(tagged)].version]
        ELSE IF any # {}
        THEN [exc |-> "none", log |-> MatchKind(config, builds[first(any)]),
              ret |-> builds[first(any)].version]
        ELSE Return(None)

\* The for loop of get_build_version, from the i-th build on.
RECURSIVE ScanBuilds(_, _, _)
ScanBuilds(config, builds, i) ==
    IF i > Len(builds) THEN Return(None)
    ELSE IF MatchKind(config, builds[i]) # "continue"
         THEN [exc |-> "none", log |-> MatchKind(config, builds[i]),
               ret |-> builds[i].version]
    ELSE ScanBuilds(config, builds, i + 1)

get_build_version(config, response) ==
    LET json_data == query_api(response)
    IN  IF json_data.exc # "none" THEN json_data
        ELSE IF ~json_data.ret.has_builds THEN Raise("HandledError", "builds_missing")
        ELSE ScanBuilds(config, json_data.ret.builds, 1)

\* ScanJobs that returns the jobs before the named one along with it.
RECURSIVE ScanJobs_KeepsEarlier(_, _, _, _)
ScanJobs_KeepsEarlier(config, jobs, i, all_jobs) ==
    IF i > Len(jobs)
    THEN IF config.job_name # "" THEN Raise("HandledError", "job_name_not_found")
         ELSE Return(all_jobs)
    ELSE IF config.job_name # "" /\ config.job_name = jobs[i].name
         THEN Return(Append(all_jobs, <<jobs[i].jobId, jobs[i].status>>))
    ELSE ScanJobs_KeepsEarlier(config, jobs, i + 1,
                               Append(all_jobs, <<jobs[i].jobId, jobs[i].status>>))

\* The for loop of get_job_ids, from the i-th job on, all_jobs so far.
RECURSIVE ScanJobs(_, _, _, _)
ScanJobs(config, jobs, i, all_jobs) ==
    IF i > Len(jobs)
    THEN IF config.job_name # "" THEN Raise("HandledError", "job_name_not_found")
         ELSE Return(all_jobs)
    ELSE IF config.job_name # "" /\ config.job_name = jobs[i].name
         THEN Return(<<<<jobs[i].jobId, jobs[i].status>>>>)
    ELSE ScanJobs(config, jobs, i + 1,
                  Append(all_jobs, <<jobs[i].jobId, jobs[i].status>>))

get_job_ids(config, response) ==
    LET json_data == query_api(response)
    IN  IF json_data.exc # "none" THEN json_data
        ELSE IF ~json_data.ret.has_build THEN Raise("HandledError", "build_missing")
        ELSE IF ~json_data.ret.has_jobs THEN Raise("HandledError", "jobs_missing")
        ELSE ScanJobs(config, json_data.ret.jobs, 1, <<>>)

\* One pass of get_artifacts_urls' outer loop: the pairs job's reply adds.
ArtifactsOf(job, response) ==
    LET json_data == query_api(response)
    IN  IF json_data.exc # "none" THEN json_data
        ELSE Return([i \in 1..Len(json_data.ret) |->
                        <<job, json_data.ret[i].fileName>>])

\* get_artifacts_urls' argument in main: [i[0] for i in job_ids].
JobIdsOf(job_ids) == [i \in 1..Len(job_ids) |-> job_ids[i][1]]

\* set([i[1] for i in job_ids])
StatusSet(job_ids) == {job_ids[i][2] : i \in 1..Len(job_ids)}

\* [i[0] for i in job_ids if i[1] == 'failed'][0]
FirstFailed(job_ids) ==
    LET failed == SelectSeq(job_ids, LAMBDA i : i[2] = "failed")
    IN  failed[1][1]

\* PollDecision that looks for running jobs before failed ones.
PollDecision_RunningFirst(job_ids) ==
    LET statuses == StatusSet(job_ids)
    IN  IF "running" \in statuses THEN "running"
        ELSE IF "failed" \in statuses THEN "failed"
        ELSE IF statuses = {"success"} THEN "success"
        ELSE IF "queued" \in statuses THEN "queued"
        ELSE "TypeError"

\* PollDecision that takes one successful job for a successful build.
PollDecision_AnySuccess(job_ids) ==
    LET statuses == StatusSet(job_ids)
    IN  IF "failed" \in statuses THEN "failed"
        ELSE IF "success" \in statuses THEN "success"
        ELSE IF "running" \in statuses THEN "running"
        ELSE IF "queued" \in statuses THEN "queued"
        ELSE "TypeError"

\* PollDecision that looks for unknown statuses before running and queued
\* jobs.
PollDecision_UnknownFirst(job_ids) ==
    LET statuses == StatusSet(job_ids)
    IN  IF "failed" \in statuses THEN "failed"
        ELSE IF statuses = {"success"} THEN "success"
        ELSE IF ~(statuses \subseteq {"success", "failed", "running", "queued"})
             THEN "TypeError"
        ELSE IF "running" \in statuses THEN "running"
        ELSE IF "queued" \in statuses THEN "queued"
        ELSE "TypeError"

\* PollDecision that takes no job without success for a successful build.
PollDecision_EmptyIsSuccess(job_ids) ==
    LET statuses == StatusSet(job_ids)
    IN  IF "failed" \in statuses THEN "failed"
        ELSE IF statuses \subseteq {"success"} THEN "success"
        ELSE IF "running" \in statuses THEN "running"
        ELSE IF "queued" \in statuses THEN "queued"
        ELSE "TypeError"

\* The branch one pass of main's while loop takes on the jobs it fetched.
\* On the last branch the argument of log.error, a set minus a list, raises
\* TypeError before anything is logged.
PollDecision(job_ids) ==
    LET statuses == StatusSet(job_ids)
    IN  IF "failed" \in statuses THEN "failed"
        ELSE IF statuses = {"success"} THEN "success"
        ELSE IF "running" \in statuses THEN "running"
        ELSE IF "queued" \in statuses THEN "queued"
        ELSE "TypeError"

\* config['timeout'] and time.time() - start_time >= config['timeout'].
\* validate accepts a timeout only as a string of digits, and the string is
\* compared as it is with the elapsed seconds, a float: Python 3 raises
\* TypeError, Python 2 orders every number before every string.
TimeoutReached(config, python, seconds) ==
    IF ~Truthy(config.timeout) THEN "false"
    ELSE IF python = 3 THEN "TypeError"
    ELSE "false"

\* The endpoints the program queries: the URL's kind and what is formatted
\* into it.
HistoryEndpoint(config) ==
    [kind |-> "history", owner |-> config.owner, repo |-> config.repo,
     item |-> ""]

\* BuildEndpoint that asks for the project's last build, not for a version.
BuildEndpoint_LastBuild(config, build_version) ==
    [kind |-> "build", owner |-> config.owner, repo |-> config.repo,
     item |-> ""]

BuildEndpoint(config, build_version) ==
    [kind |-> "build", owner |-> config.owner, repo |-> config.repo,
     item |-> build_version]

ArtifactsEndpoint(job) ==
    [kind |-> "artifacts", owner |-> <<>>, repo |-> <<>>, item |-> job]

\* How a process ends: its exit status, the exception that left entry_point
\* and the message entry_point logged. Running: it has not ended.
Running ==
    [exited |-> FALSE, status |-> 0, uncaught |-> "none", message |-> "none"]

Exited(status, uncaught, message) ==
    [exited |-> TRUE, status |-> status, uncaught |-> uncaught,
     message |-> message]

\* entry_point once main has ended with outcome ("return" or an exception).
\* Only HandledError is caught, and the handler looks up config['--raise'],
\* a key get_arguments never sets: the lookup raises KeyError.
entry_point(config, outcome) ==
    IF outcome = "return" THEN Exited(0, "none", "none")
    ELSE IF outcome # "HandledError" THEN Exited(1, outcome, "none")
    ELSE IF "--raise" \notin DOMAIN config THEN Exited(1, "KeyError", "none")
    ELSE IF config["--raise"] THEN Exited(1, "HandledError", "none")
    ELSE Exited(1, "none", "Failure.")

---------------------------------------------------------------------------
(* The state of one run of main *)

VARIABLES
    pc,             \* where main is, or was when SIGINT ended the process:
                    \* validate, locate, locate_sleep, poll, poll_sleep,
                    \* resolve, done; "call" and "called" are the places of
                    \* a function called on its own
    outcome,        \* "none" while main runs, "return", or the exception
    error,          \* what the last log.error call reported
    config,         \* main's argument
    python,         \* the major version of the interpreter
    build_version,  \* main's build_version
    attempts,       \* passes of the for loop that have ended
    job_ids,        \* main's job_ids
    elapsed,        \* time.time() - start_time, in seconds
    branch,         \* the branch the last pass of the while loop took on
                    \* the jobs it fetched; "none" if it fetched none
    failed_job,     \* the job of the URL logged by the failed branch
    job_arg,        \* the argument of get_artifacts_urls
    artifacts,      \* get_artifacts_urls' artifacts
    nHistory,       \* history queries issued
    nBuild,         \* job-listing queries issued
    nArtifacts,     \* artifact-listing queries issued
    reply,          \* the reply handed to a function called on its own
    result,         \* what that function did
    requests,       \* the endpoints queried so far, in order
    listings,       \* the artifact listings received so far, in order
    exit,           \* how the process ended, Running until it has
    sigint          \* whether SIGINT has been delivered

vars ==
    <<pc, outcome, error, config, python, build_version, attempts, job_ids,
      elapsed, branch, failed_job, job_arg, artifacts, nHistory, nBuild,
      nArtifacts, reply, result, requests, listings, exit, sigint>>

Pythons == {2, 3}

Init ==
    /\ pc = "validate"
    /\ outcome = "none"
    /\ error = "none"
    /\ config \in Configs
    /\ python \in Pythons
    /\ build_version = None
    /\ attempts = 0
    /\ job_ids = <<>>
    /\ elapsed = 0
    /\ branch = "none"
    /\ failed_job = None
    /\ job_arg = <<>>
    /\ artifacts = <<>>
    /\ nHistory = 0
    /\ nBuild = 0
    /\ nArtifacts = 0
    /\ reply = NoJson
    /\ result = Return(None)
    /\ requests = <<>>
    /\ listings = <<>>
    /\ exit = Running
    /\ sigint = FALSE

\* main ends with exception exc after logging err.
Fail(exc, err) ==
    /\ pc' = "done"
    /\ outcome' = exc
    /\ error' = err
    /\ exit' = entry_point(config, exc)

\* validate(config)
Validate ==
    /\ pc = "validate"
    /\ ~exit.exited
    /\ IF validate(config) = "ok"
       THEN pc' = "locate" /\ UNCHANGED <<outcome, error, exit>>
       ELSE Fail("HandledError", validate(config))
    /\ UNCHANGED <<config, python, build_version, attempts, job_ids, elapsed,
                   branch, failed_job, job_arg, artifacts, nHistory, nBuild,
                   nArtifacts, reply, result,
                   requests, listings, sigint>>

\* One pass of the for loop up to the sleep: get_build_version and the
\* break. start_time is taken when the loop is left with a build version.
Locate ==
    /\ pc = "locate"
    /\ ~exit.exited
    /\ \E response \in HistoryResponses :
         LET r == get_build_version(config, response)
         IN  /\ nHistory' = nHistory + 1
             /\ requests' = Append(requests, HistoryEndpoint(config))
             /\ IF r.exc # "none"
                THEN Fail(r.exc, r.log) /\ UNCHANGED build_version
                ELSE /\ build_version' = r.ret
                     /\ pc' = IF r.ret # None THEN "poll" ELSE "locate_sleep"
                     /\ UNCHANGED <<outcome, error, exit>>
    /\ UNCHANGED <<config, python, attempts, job_ids, elapsed, branch,
                   failed_job, job_arg, artifacts, nBuild, nArtifacts, reply,
                   result,
                   listings, sigint>>

\* LocateSleep without the check that follows the loop.
LocateSleep_NoRaise ==
    /\ pc = "locate_sleep"
    /\ ~exit.exited
    /\ attempts' = attempts + 1
    /\ pc' = IF attempts + 1 < LocateAttempts THEN "locate" ELSE "poll"
    /\ UNCHANGED <<outcome, error, config, python, build_version, job_ids,
                   elapsed, branch, failed_job, job_arg, artifacts, nHistory,
                   nBuild, nArtifacts, reply, result,
                   requests, listings, exit, sigint>>

\* LocateSleep of a loop that makes one pass more.
LocateSleep_OnePassMore ==
    /\ pc = "locate_sleep"
    /\ ~exit.exited
    /\ attempts' = attempts + 1
    /\ IF attempts + 1 < LocateAttempts + 1
       THEN pc' = "locate" /\ UNCHANGED <<outcome, error, exit>>
       ELSE Fail("HandledError", "build_not_found")
    /\ UNCHANGED <<config, python, build_version, job_ids, elapsed, branch,
                   failed_job, job_arg, artifacts, nHistory, nBuild,
                   nArtifacts, reply, result,
                   requests, listings, sigint>>

\* The sleep that ends a pass without a build version, and after the last
\* pass the check that follows the loop.
LocateSleep ==
    /\ pc = "locate_sleep"
    /\ ~exit.exited
    /\ attempts' = attempts + 1
    /\ IF attempts + 1 < LocateAttempts
       THEN pc' = "locate" /\ UNCHANGED <<outcome, error, exit>>
       ELSE Fail("HandledError", "build_not_found")
    /\ UNCHANGED <<config, python, build_version, job_ids, elapsed, branch,
                   failed_job, job_arg, artifacts, nHistory, nBuild,
                   nArtifacts, reply, result,
                   requests, listings, sigint>>

\* One pass of the while loop up to the sleep. The query takes rtt seconds.
Poll ==
    /\ pc = "poll"
    /\ ~exit.exited
    /\ \E response \in BuildResponses, rtt \in Rtts :
         LET r == get_job_ids(config, response)
             seconds == elapsed + rtt
             decision == PollDecision(r.ret)
             timeout == TimeoutReached(config, python, seconds)
         IN  /\ seconds <= MaxElapsed
             /\ nBuild' = nBuild + 1
             /\ requests' = Append(requests, BuildEndpoint(config, build_version))
             /\ elapsed' = seconds
             /\ IF r.exc # "none"
                THEN /\ Fail(r.exc, r.log)
                     /\ branch' = "none"
                     /\ UNCHANGED <<job_ids, failed_job, job_arg>>
                ELSE /\ job_ids' = r.ret
                     /\ branch' = decision
                     /\ IF decision = "failed"
                        THEN /\ Fail("HandledError", "job_failed")
                             /\ failed_job' = FirstFailed(r.ret)
                             /\ UNCHANGED job_arg
                        ELSE IF decision = "success"
                        THEN /\ pc' = "resolve"
                             /\ job_arg' = JobIdsOf(r.ret)
                             /\ UNCHANGED <<outcome, error, exit, failed_job>>
                        ELSE IF decision = "TypeError"
                        THEN /\ Fail("TypeError", "none")
                             /\ UNCHANGED <<failed_job, job_arg>>
                        ELSE IF timeout = "true"
                        THEN /\ Fail("HandledError", "poll_timeout")
                             /\ UNCHANGED <<failed_job, job_arg>>
                        ELSE IF timeout = "TypeError"
                        THEN /\ Fail("TypeError", "none")
                             /\ UNCHANGED <<failed_job, job_arg>>
                        ELSE /\ pc' = "poll_sleep"
                             /\ UNCHANGED <<outcome, error, exit, failed_job, job_arg>>
    /\ UNCHANGED <<config, python, build_version, attempts, artifacts,
                   nHistory, nArtifacts, reply, result,
                   listings, sigint>>

\* time.sleep(SLEEP_FOR) at the end of a pass of the while loop.
PollSleep ==
    /\ pc = "poll_sleep"
    /\ ~exit.exited
    /\ elapsed + SLEEP_FOR <= MaxElapsed
    /\ elapsed' = elapsed + SLEEP_FOR
    /\ pc' = "poll"
    /\ UNCHANGED <<outcome, error, config, python, build_version, attempts,
                   job_ids, branch, failed_job, job_arg, artifacts, nHistory,
                   nBuild, nArtifacts, reply, result,
                   requests, listings, exit, sigint>>

\* Resolve that puts the pairs of the next job before those it has.
Resolve_NewestFirst ==
    /\ pc = "resolve"
    /\ ~exit.exited
    /\ nArtifacts < Len(job_arg)
    /\ \E response \in ArtifactResponses :
         LET r == ArtifactsOf(job_arg[nArtifacts + 1], response)
         IN  /\ nArtifacts' = nArtifacts + 1
             /\ requests' = Append(requests, ArtifactsEndpoint(job_arg[nArtifacts + 1]))
             /\ IF r.exc # "none"
                THEN Fail(r.exc, r.log) /\ UNCHANGED <<artifacts, listings>>
                ELSE /\ artifacts' = r.ret \o artifacts
                     /\ listings' = Append(listings, response.json)
                     /\ UNCHANGED <<pc, outcome, error, exit>>
    /\ UNCHANGED <<config, python, build_version, attempts, job_ids, elapsed,
                   branch, failed_job, job_arg, nHistory, nBuild, reply, result,
                   sigint>>

\* One pass of get_artifacts_urls' loop: the query for the next job.
Resolve ==
    /\ pc = "resolve"
    /\ ~exit.exited
    /\ nArtifacts < Len(job_arg)
    /\ \E response \in ArtifactResponses :
         LET r == ArtifactsOf(job_arg[nArtifacts + 1], response)
         IN  /\ nArtifacts' = nArtifacts + 1
             /\ requests' = Append(requests, ArtifactsEndpoint(job_arg[nArtifacts + 1]))
             /\ IF r.exc # "none"
                THEN Fail(r.exc, r.log) /\ UNCHANGED <<artifacts, listings>>
                ELSE /\ artifacts' = artifacts \o r.ret
                     /\ listings' = Append(listings, response.json)
                     /\ UNCHANGED <<pc, outcome, error, exit>>
    /\ UNCHANGED <<config, python, build_version, attempts, job_ids, elapsed,
                   branch, failed_job, job_arg, nHistory, nBuild, reply, result,
                   sigint>>

\* get_artifacts_urls returns and main logs the count and returns.
Finish ==
    /\ pc = "resolve"
    /\ ~exit.exited
    /\ nArtifacts = Len(job_arg)
    /\ pc' = "done"
    /\ outcome' = "return"
    /\ exit' = entry_point(config, "return")
    /\ error' = IF artifacts = <<>> THEN "warning_no_artifacts" ELSE error
    /\ UNCHANGED <<config, python, build_version, attempts, job_ids, elapsed,
                   branch, failed_job, job_arg, artifacts, nHistory, nBuild,
                   nArtifacts, reply, result,
                   requests, listings, sigint>>

\* Interrupt of a process that ignores SIGINT.
Interrupt_Ignored ==
    /\ ~exit.exited
    /\ sigint' = TRUE
    /\ UNCHANGED <<pc, outcome, error, config, python, build_version, attempts,
                   job_ids, elapsed, branch, failed_job, job_arg, artifacts,
                   nHistory, nBuild, nArtifacts, reply, result, requests,
                   listings, exit>>

\* SIGINT while main runs (between two steps, or in the sleep or the query
\* a step begins with): the handler entry_point installed first calls
\* os._exit(0).
Interrupt ==
    /\ ~exit.exited
    /\ sigint' = TRUE
    /\ exit' = Exited(0, "none", "none")
    /\ UNCHANGED <<pc, outcome, error, config, python, build_version, attempts,
                   job_ids, elapsed, branch, failed_job, job_arg, artifacts,
                   nHistory, nBuild, nArtifacts, reply, result, requests,
                   listings>>

Next ==
    \/ Validate
    \/ Locate
    \/ LocateSleep
    \/ Poll
    \/ PollSleep
    \/ Resolve
    \/ Finish
    \/ Interrupt

Spec == Init /\ [][Next]_vars

---------------------------------------------------------------------------
(* get_build_version called on its own: any identity, any history reply *)

LocateConfigs ==
    {[BaseConfig EXCEPT !.commit = c, !.tag = t, !.pull_request = p] :
        c \in {<<>>, Sha1, Sha2}, t \in {<<>>, TagV1}, p \in {<<>>, Pr7}}

InitLocate ==
    /\ pc = "call"
    /\ outcome = "none"
    /\ error = "none"
    /\ config \in LocateConfigs
    /\ python \in Pythons
    /\ build_version = None
    /\ attempts = 0
    /\ job_ids = <<>>
    /\ elapsed = 0
    /\ branch = "none"
    /\ failed_job = None
    /\ job_arg = <<>>
    /\ artifacts = <<>>
    /\ nHistory = 0
    /\ nBuild = 0
    /\ nArtifacts = 0
    /\ reply \in HistoryResponses
    /\ result = Return(None)
    /\ requests = <<>>
    /\ listings = <<>>
    /\ exit = Running
    /\ sigint = FALSE

CallGetBuildVersion ==
    /\ pc = "call"
    /\ pc' = "called"
    /\ result' = get_build_version(config, reply)
    /\ nHistory' = nHistory + 1
    /\ requests' = Append(requests, HistoryEndpoint(config))
    /\ UNCHANGED <<outcome, error, config, python, build_version, attempts,
                   job_ids, elapsed, branch, failed_job, job_arg, artifacts,
                   nBuild, nArtifacts, reply, listings, exit, sigint>>

NextLocate == CallGetBuildVersion

SpecLocate == InitLocate /\ [][NextLocate]_vars

---------------------------------------------------------------------------
(* One pass of the while loop on its own: any job-name filter, any build   *)
(* reply, get_job_ids and the branch taken on what it returns              *)

JobsConfigs ==
    {[BaseConfig EXCEPT !.job_name = jn] : jn \in {"", "n1", "n2", "n3"}}

InitJobs ==
    /\ pc = "call"
    /\ outcome = "none"
    /\ error = "none"
    /\ config \in JobsConfigs
    /\ python \in Pythons
    /\ build_version = VersionAt[1]
    /\ attempts = 0
    /\ job_ids = <<>>
    /\ elapsed = 0
    /\ branch = "none"
    /\ failed_job = None
    /\ job_arg = <<>>
    /\ artifacts = <<>>
    /\ nHistory = 0
    /\ nBuild = 0
    /\ nArtifacts = 0
    /\ reply \in NamedBuildResponses
    /\ result = Return(None)
    /\ requests = <<>>
    /\ listings = <<>>
    /\ exit = Running
    /\ sigint = FALSE

CallGetJobIds ==
    /\ pc = "call"
    /\ pc' = "called"
    /\ result' = get_job_ids(config, reply)
    /\ branch' = IF get_job_ids(config, reply).exc # "none" THEN "none"
                 ELSE PollDecision(get_job_ids(config, reply).ret)
    /\ nBuild' = nBuild + 1
    /\ requests' = Append(requests, BuildEndpoint(config, build_version))
    /\ UNCHANGED <<outcome, error, config, python, build_version, attempts,
                   job_ids, elapsed, failed_job, job_arg, artifacts, nHistory,
                   nArtifacts, reply, listings, exit, sigint>>

NextJobs == CallGetJobIds

SpecJobs == InitJobs /\ [][NextJobs]_vars

---------------------------------------------------------------------------
(* query_api called on its own: any response to one GET, with a body that  *)
(* is a JSON object where it is JSON                                       *)

Responses == HistoryResponses \cup NamedBuildResponses

InitQuery ==
    /\ pc = "call"
    /\ outcome = "none"
    /\ error = "none"
    /\ config = BaseConfig
    /\ python \in Pythons
    /\ build_version = None
    /\ attempts = 0
    /\ job_ids = <<>>
    /\ elapsed = 0
    /\ branch = "none"
    /\ failed_job = None
    /\ job_arg = <<>>
    /\ artifacts = <<>>
    /\ nHistory = 0
    /\ nBuild = 0
    /\ nArtifacts = 0
    /\ reply \in Responses
    /\ result = Return(None)
    /\ requests = <<>>
    /\ listings = <<>>
    /\ exit = Running
    /\ sigint = FALSE

CallQueryApi ==
    /\ pc = "call"
    /\ pc' = "called"
    /\ result' = query_api(reply)
    /\ requests' = Append(requests, HistoryEndpoint(config))
    /\ UNCHANGED <<outcome, error, config, python, build_version, attempts,
                   job_ids, elapsed, branch, failed_job, job_arg, artifacts,
                   nHistory, nBuild, nArtifacts, reply, listings, exit, sigint>>

NextQuery == CallQueryApi

SpecQuery == InitQuery /\ [][NextQuery]_vars

---------------------------------------------------------------------------
(* get_artifacts_urls called on its own: any list of job ids *)

\* The lists of job ids: in any order, an id twice, none at all.
JobArgs ==
    UNION {[1..k -> {JobIdAt[i] : i \in 1..MaxJobs}] : k \in 0..MaxJobs}

InitArtifacts ==
    /\ pc = "resolve"
    /\ outcome = "none"
    /\ error = "none"
    /\ config = BaseConfig
    /\ python \in Pythons
    /\ build_version = VersionAt[1]
    /\ attempts = 0
    /\ job_ids = <<>>
    /\ elapsed = 0
    /\ branch = "none"
    /\ failed_job = None
    /\ job_arg \in JobArgs
    /\ artifacts = <<>>
    /\ nHistory = 0
    /\ nBuild = 0
    /\ nArtifacts = 0
    /\ reply = NoJson
    /\ result = Return(None)
    /\ requests = <<>>
    /\ listings = <<>>
    /\ exit = Running
    /\ sigint = FALSE

NextArtifacts ==
    \/ Resolve
    \/ Finish

SpecArtifacts == InitArtifacts /\ [][NextArtifacts]_vars

---------------------------------------------------------------------------
(* Properties *)

Least(S) == CHOOSE x \in S : \A y \in S : x <= y

\* The jobs of a listing that have failed, and whether all have succeeded.
FailedAt(jobs) == {i \in 1..Len(jobs) : jobs[i][2] = "failed"}

EveryJobSucceeded(jobs) == \A i \in 1..Len(jobs) : jobs[i][2] = "success"

\* Polling has ended in success: main is resolving artifacts or has returned.
EndedInSuccess == pc = "resolve" \/ outcome = "return" \/ nArtifacts > 0

\* The builds of the reply handed to get_build_version, if it has any.
HasBuilds == reply.kind = "ok" /\ reply.is_json /\ reply.json.has_builds

\* A build matches the identity by tag, by pull request or by commit.
TagMatches(b) == config.tag # <<>> /\ config.tag = b.tag

PullRequestMatches(b) ==
    config.pull_request # <<>> /\ config.pull_request = b.pullRequestId

CommitMatches(b) == config.commit = b.commitId

Matches(b) == TagMatches(b) \/ PullRequestMatches(b) \/ CommitMatches(b)

\* C1: in every run of main the steps come in the order locate build, poll
\* jobs, resolve artifacts: a job-listing query is issued only after
\* get_build_version has returned a build version, and an artifact-listing
\* query only after a poll has found every job of a non-empty listing
\* successful.
C1_StepOrder ==
    /\ nBuild > 0 => (build_version # None /\ nHistory > 0)
    /\ nArtifacts > 0 =>
         (nBuild > 0 /\ job_ids # <<>> /\ EveryJobSucceeded(job_ids))

\* A run that went through all three steps and returned.
C1_Witness == outcome = "return" /\ nHistory > 1 /\ nBuild > 1 /\ nArtifacts > 1

\* C2, as claimed: whenever a build of the history has the identity's tag,
\* get_build_version returns the version of the first such build, even if an
\* earlier build has the identity's commit.
C2_TagWinsAcrossBuilds ==
    (pc = "called" /\ HasBuilds) =>
        LET builds == reply.json.builds
            tagged == {j \in 1..Len(builds) : TagMatches(builds[j])}
        IN  tagged # {} => result.ret = builds[Least(tagged)].version

\* C2, amended: a build with the identity's tag is returned only if no
\* earlier build matches by pull request or by commit; if one does, the
\* first such earlier build is returned, whatever tag it has.
C2_TagWinsWithinScanOrder ==
    (pc = "called" /\ HasBuilds) =>
        LET builds == reply.json.builds
            tagged == {j \in 1..Len(builds) : TagMatches(builds[j])}
            earlier == {i \in 1..Len(builds) :
                          /\ \A j \in tagged : i < j
                          /\ PullRequestMatches(builds[i]) \/ CommitMatches(builds[i])}
        IN  tagged # {} =>
              result.ret = IF earlier = {} THEN builds[Least(tagged)].version
                           ELSE builds[Least(earlier)].version

\* Build #1 has only the identity's commit, build #2 has its tag, and
\* build #1 is returned.
C2_Witness ==
    /\ pc = "called" /\ HasBuilds
    /\ Len(reply.json.builds) = 2
    /\ ~TagMatches(reply.json.builds[1])
    /\ ~PullRequestMatches(reply.json.builds[1])
    /\ CommitMatches(reply.json.builds[1])
    /\ TagMatches(reply.json.builds[2])
    /\ result.ret = reply.json.builds[1].version

\* C3: a pass of the while loop that fetched a listing with a failed job
\* ends the run in that pass with HandledError, the job-failed error and
\* the id of the first failed job in listing order, whatever the other
\* statuses; nothing follows: no sleep, no poll, no artifact query.
C3_JobFailed ==
    FailedAt(job_ids) # {} =>
        /\ pc = "done"
        /\ outcome = "HandledError"
        /\ error = "job_failed"
        /\ failed_job = job_ids[Least(FailedAt(job_ids))][1]
        /\ nArtifacts = 0
        /\ ~ENABLED Next

\* The listing [(a, failed), (b, running)] ended the run with job a.
C3_Witness ==
    /\ Len(job_ids) = 2
    /\ job_ids[1][2] = "failed"
    /\ job_ids[2][2] = "running"
    /\ error = "job_failed"
    /\ failed_job = job_ids[1][1]

\* C4, as claimed: a pass of the while loop that fetched a listing ends
\* polling in success exactly when every job of the listing has status
\* success, and the jobs handed to get_artifacts_urls are then the jobs of
\* that listing, in its order.
C4_SuccessIffEverySuccess ==
    branch # "none" =>
        /\ EndedInSuccess <=> EveryJobSucceeded(job_ids)
        /\ EndedInSuccess => job_arg = [i \in 1..Len(job_ids) |-> job_ids[i][1]]

\* C4, amended: polling ends in success exactly when the listing is not
\* empty and every job of it has status success; the jobs handed to
\* get_artifacts_urls are then the jobs of that listing, in its order, so
\* every artifact belongs to a job whose last polled status was success.
C4_SuccessIffNonEmptyEverySuccess ==
    branch # "none" =>
        /\ EndedInSuccess <=> (job_ids # <<>> /\ EveryJobSucceeded(job_ids))
        /\ EndedInSuccess => job_arg = [i \in 1..Len(job_ids) |-> job_ids[i][1]]
        /\ \A k \in 1..Len(artifacts) :
             \E i \in 1..Len(job_ids) :
                job_ids[i] = <<artifacts[k][1], "success">>

\* The listing [(a, success), (b, success)] was handed on whole and a run
\* has resolved an artifact of job b.
C4_Witness ==
    /\ job_ids = <<<<JobIdAt[1], "success">>, <<JobIdAt[2], "success">>>>
    /\ job_arg = <<JobIdAt[1], JobIdAt[2]>>
    /\ \E k \in 1..Len(artifacts) : artifacts[k][1] = JobIdAt[2]

\* The statuses main lists as valid.
valid_statuses == {"success", "failed", "running", "queued"}

\* C5: a pass whose listing has no failed job, is not all success and has
\* neither a running nor a queued job ends the run with the handled error
\* that reports the unknown statuses.
C5_UnknownStatusHandled ==
    (/\ branch # "none"
     /\ FailedAt(job_ids) = {}
     /\ \E i \in 1..Len(job_ids) : job_ids[i][2] \notin valid_statuses
     /\ \A i \in 1..Len(job_ids) : job_ids[i][2] \notin {"running", "queued"})
    => (pc = "done" /\ outcome = "HandledError" /\ error = "unknown_status")

\* int(s) for a string of digits.
DigitValue(c) == CHOOSE n \in 0..9 : ToString(n) = c

RECURSIVE Seconds(_)
Seconds(s) ==
    IF s = <<>> THEN 0
    ELSE 10 * Seconds(SubSeq(s, 1, Len(s) - 1)) + DigitValue(s[Len(s)])

\* A pass of the while loop has just found the jobs waiting or running.
Waiting == branch \in {"running", "queued"} /\ pc \in {"poll_sleep", "done"}

\* C6: with a timeout shorter than the sleep interval, a first listing that
\* is not terminal ends the run with the polling-timeout error after exactly
\* one job-listing query.
C6_ShortTimeoutOnePoll ==
    (/\ config.timeout # <<>>
     /\ validate(config) = "ok"
     /\ Seconds(config.timeout) < SLEEP_FOR
     /\ Waiting)
    => (/\ pc = "done" /\ outcome = "HandledError" /\ error = "poll_timeout"
        /\ nBuild = 1)

\* C7: a pass that found the jobs waiting, with a timeout supplied, ends the
\* run with the polling-timeout error if the elapsed seconds have reached
\* the timeout, and goes to sleep for the next pass if they have not.
C7_TimeoutCheck ==
    (config.timeout # <<>> /\ validate(config) = "ok" /\ Waiting) =>
        IF elapsed >= Seconds(config.timeout)
        THEN pc = "done" /\ outcome = "HandledError" /\ error = "poll_timeout"
        ELSE pc = "poll_sleep"

\* C8: with a timeout supplied the while loop goes on only while seconds of
\* the budget are left, so the passes are bounded: it sleeps for another
\* pass only with less than the timeout elapsed, and no pass starts later
\* than one sleep after the timeout.
C8_LoopBoundedByTimeout ==
    (config.timeout # <<>> /\ validate(config) = "ok") =>
        /\ pc = "poll_sleep" => elapsed < Seconds(config.timeout)
        /\ (pc = "poll" /\ nBuild > 0) =>
             elapsed < Seconds(config.timeout) + SLEEP_FOR

\* C9: in one run get_build_version is called at most 3 times and not again
\* once a call has returned a build version; if 3 calls return none, the run
\* ends with the handled build-not-found error and has issued neither a
\* job-listing nor an artifact query.
C9_BoundedLocateRetry ==
    /\ nHistory <= 3
    /\ build_version # None =>
         (pc \notin {"locate", "locate_sleep"} /\ nHistory = attempts + 1)
    /\ (nHistory = 3 /\ build_version = None /\ pc \notin {"locate_sleep"}) =>
         (/\ pc = "done" /\ outcome # "none" /\ outcome # "return"
          /\ nBuild = 0 /\ nArtifacts = 0)
    /\ attempts = 3 =>
         (/\ pc = "done" /\ outcome = "HandledError" /\ error = "build_not_found"
          /\ build_version = None /\ nHistory = 3 /\ nBuild = 0 /\ nArtifacts = 0)

\* Three calls found no build and the run gave up.
C9_Witness == nHistory = 3 /\ attempts = 3 /\ error = "build_not_found"

\* C10: on a history reply with builds, get_build_version returns the
\* version of the first build in reply order that matches by tag, else by
\* pull request, else by commit, taking the first of the three tests that
\* holds of that build; it returns None, raising nothing, exactly when no
\* build of the reply matches.
C10_FirstMatchingBuild ==
    (pc = "called" /\ HasBuilds) =>
        LET builds == reply.json.builds
            matching == {i \in 1..Len(builds) : Matches(builds[i])}
        IN  /\ result.exc = "none"
            /\ result.ret = None <=> matching = {}
            /\ matching # {} =>
                 LET build == builds[Least(matching)]
                 IN  /\ result.ret = build.version
                     /\ result.log = IF TagMatches(build) THEN "tag"
                                     ELSE IF PullRequestMatches(build)
                                          THEN "pull_request"
                                     ELSE "commit"

\* Build #1 matches nothing, build #2 matches by pull request only, and
\* build #2 is returned.
C10_Witness ==
    /\ pc = "called" /\ HasBuilds
    /\ Len(reply.json.builds) = 2
    /\ ~Matches(reply.json.builds[1])
    /\ PullRequestMatches(reply.json.builds[2])
    /\ ~TagMatches(reply.json.builds[2])
    /\ ~CommitMatches(reply.json.builds[2])
    /\ result.ret = reply.json.builds[2].version
    /\ result.log = "pull_request"

\* The jobs of the reply handed to get_job_ids, if it has any.
HasJobs ==
    /\ reply.kind = "ok" /\ reply.is_json
    /\ reply.json.has_build /\ reply.json.has_jobs

\* The branch of the while loop a single job of the given status leads to.
BranchOfStatus(status) ==
    IF status \in {"failed", "success", "running", "queued"} THEN status
    ELSE "TypeError"

\* C11: with a job-name filter set, get_job_ids returns only the first job
\* of the listing that has the name, with its status, whatever the other
\* jobs and their statuses are, so the branch the pass takes is the one of
\* that job's status and only its id can be handed to get_artifacts_urls;
\* if no job of the listing has the name, get_job_ids raises HandledError
\* after the job-name-not-found error and the pass takes no branch.
C11_FilterSelectsOneJob ==
    (pc = "called" /\ config.job_name # "" /\ HasJobs) =>
        LET jobs == reply.json.jobs
            named == {i \in 1..Len(jobs) : jobs[i].name = config.job_name}
        IN  IF named = {}
            THEN /\ result.exc = "HandledError"
                 /\ result.log = "job_name_not_found"
                 /\ branch = "none"
            ELSE LET job == jobs[Least(named)]
                 IN  /\ result.exc = "none"
                     /\ result.ret = <<<<job.jobId, job.status>>>>
                     /\ JobIdsOf(result.ret) = <<job.jobId>>
                     /\ branch = BranchOfStatus(job.status)

\* The filter names the second job, which has succeeded, the first job has
\* failed, and the pass ends in success with the second job alone.
C11_Witness ==
    /\ pc = "called" /\ HasJobs
    /\ config.job_name = "n2"
    /\ Len(reply.json.jobs) = 2
    /\ reply.json.jobs[1].name = "n1" /\ reply.json.jobs[1].status = "failed"
    /\ reply.json.jobs[2].name = "n2" /\ reply.json.jobs[2].status = "success"
    /\ result.ret = <<<<JobIdAt[2], "success">>>>
    /\ branch = "success"

\* What the identity's fields have to look like.
MissingOwnerOrRepo == config.owner = <<>> \/ config.repo = <<>>

MalformedCommit ==
    /\ config.commit # <<>>
    /\ ~(Len(config.commit) \in 7..40 /\ AllIn(config.commit, HexLower))

MalformedTag == config.tag # <<>> /\ ~AllIn(config.tag, GeneralChars)

MalformedPullRequest ==
    config.pull_request # <<>> /\ ~AllIn(config.pull_request, Digits)

\* C12: a run whose config lacks the owner or the repo, or has a commit that
\* is not 7 to 40 lowercase hex digits, a tag with a character outside the
\* allowed ones or a pull request that is not a number, ends in validate
\* with HandledError and issues no query at all.
C12_ValidationPrecedesNetwork ==
    (MissingOwnerOrRepo \/ MalformedCommit \/ MalformedTag \/ MalformedPullRequest)
    => /\ requests = <<>>
       /\ nHistory = 0 /\ nBuild = 0 /\ nArtifacts = 0
       /\ pc # "validate" =>
            (/\ pc = "done" /\ outcome = "HandledError"
             /\ error \in {"commit", "owner", "pull_request", "repo", "tag"})

\* C13: once get_build_version has returned a build version, the history
\* queries of the run are those of the passes of the for loop up to that
\* one and none follows a job-listing query, and every job-listing query of
\* the run, in whatever pass of the while loop and however the run ends,
\* asks for that build version of the config's owner and repo.
C13_BuildResolvedOnce ==
    /\ build_version # None =>
         \A i \in 1..Len(requests) :
            requests[i].kind = "history" <=> i <= attempts + 1
    /\ \A i \in 1..Len(requests) :
         requests[i].kind = "build" =>
            /\ build_version # None
            /\ requests[i] = [kind |-> "build", owner |-> config.owner,
                              repo |-> config.repo, item |-> build_version]
            /\ \A j \in i..Len(requests) : requests[j].kind # "history"

\* The second history query found the build, two passes of the while loop
\* asked for its jobs, and the second pass ended the run with a failed job.
C13_Witness ==
    /\ Len(requests) = 4
    /\ requests[2].kind = "history"
    /\ requests[3].kind = "build" /\ requests[4].kind = "build"
    /\ requests[4].item = build_version
    /\ pc = "done" /\ error = "job_failed"

\* C14: every call of query_api returns the parsed body or raises
\* HandledError and nothing else; it returns the parsed body of a response
\* with an ok status and a JSON body, and raises HandledError for every
\* response whose body is not JSON, whatever its status.
C14_SingleErrorKind ==
    pc = "called" =>
        /\ result.exc \in {"none", "HandledError"}
        /\ result.exc = "none" => (reply.is_json /\ result.ret = reply.json)
        /\ (reply.kind \in {"ok", "http_error"} /\ ~reply.is_json) =>
             result.exc = "HandledError"

\* The errors of a failed query and of a reply that lacks a field.
QueryErrors ==
    {"api_timeout", "api_http", "api_parse", "builds_missing", "build_missing",
     "jobs_missing"}

\* C15: a failure other than a build not found yet and jobs not finished
\* yet ends the run where it first occurs. A run that has raised anything
\* is over and takes no further step; a failed history query or a history
\* reply without builds ends the run in the pass of the for loop that met
\* it, with no sleep and no further query; a failed job-listing query, a
\* name that is not found, a failed job and an unknown status end the run
\* in their pass of the while loop; and a pass that finds the jobs waiting
\* with the supplied timeout used up ends the run too.
C15_TerminalErrorsEndRun ==
    /\ outcome \notin {"none", "return"} => (pc = "done" /\ ~ENABLED Next)
    /\ (error \in QueryErrors /\ nBuild = 0) =>
         (pc = "done" /\ nHistory = attempts + 1 /\ nArtifacts = 0)
    /\ (error \in QueryErrors \cup {"job_name_not_found", "job_failed"}
        /\ nBuild > 0 /\ nArtifacts = 0) =>
         (pc = "done" /\ requests[Len(requests)].kind = "build")
    /\ (/\ branch # "none"
        /\ FailedAt(job_ids) = {}
        /\ \E i \in 1..Len(job_ids) : job_ids[i][2] \notin valid_statuses
        /\ \A i \in 1..Len(job_ids) : job_ids[i][2] \notin {"running", "queued"})
       => (pc = "done" /\ outcome \notin {"none", "return"})
    /\ (/\ config.timeout # <<>> /\ validate(config) = "ok"
        /\ Waiting /\ elapsed >= Seconds(config.timeout))
       => (pc = "done" /\ outcome \notin {"none", "return"})

\* The pairs (job id, file name) of the listings ls of the first jobs of
\* jobs, job by job and in each listing's order, from the i-th job on.
RECURSIVE PairsOf(_, _, _)
PairsOf(jobs, ls, i) ==
    IF i > Len(ls) THEN <<>>
    ELSE [k \in 1..Len(ls[i]) |-> <<jobs[i], ls[i][k].fileName>>]
         \o PairsOf(jobs, ls, i + 1)

C17_ProcessOutcome ==
    (exit.exited /\ ~sigint) =>
        /\ outcome = "return" => (exit.status = 0 /\ exit.uncaught = "none")
        /\ outcome = "HandledError" =>
             /\ exit.status = 1
             /\ \/ exit.uncaught = "none" /\ exit.message = "Failure."
                \/ exit.uncaught = "HandledError" /\ exit.message = "none"

\* C18: SIGINT delivered while the process runs, wherever main is, ends the
\* process in that step with os._exit(0): nothing of main follows, no rest
\* of the pass, no sleep and no query; and SIGINT can be delivered in every
\* state of a running process.
C18_InterruptEndsProcess ==
    /\ sigint => (exit = Exited(0, "none", "none") /\ ~ENABLED Next)
    /\ ~exit.exited => ENABLED Interrupt

\* SIGINT arrived in the sleep after a first pass that found a job running.
C18_Witness ==
    /\ sigint /\ exit.exited
    /\ pc = "poll_sleep" /\ nBuild = 1 /\ branch = "running"
    /\ Len(requests) = 2

\* A listing without a failed job, with a running or queued job and with a
\* job of a status that is none of the four.
MixedWaiting ==
    /\ branch # "none"
    /\ FailedAt(job_ids) = {}
    /\ \E i \in 1..Len(job_ids) : job_ids[i][2] \in {"running", "queued"}
    /\ \E i \in 1..Len(job_ids) : job_ids[i][2] \notin valid_statuses

\* C19: a pass whose listing has no failed job, a running or queued job and
\* a job of an unknown status takes the running or the queued branch, not
\* the one for unknown statuses: the run does not end with the
\* unknown-status error, and what follows is the timeout check alone, so
\* without a timeout the run sleeps and polls again.
C19_WaitingBeforeUnknown ==
    MixedWaiting =>
        /\ branch \in {"running", "queued"}
        /\ error # "unknown_status"
        /\ pc \in {"poll_sleep", "poll", "done"}
        /\ pc = "done" => config.timeout # <<>>
        /\ config.timeout = <<>> => outcome = "none"

\* The first pass found [(a, running), (b, weird)], the run slept and is
\* about to poll again.
C19_Witness ==
    /\ job_ids = <<<<JobIdAt[1], "running">>, <<JobIdAt[2], "weird">>>>
    /\ pc = "poll" /\ nBuild = 1 /\ elapsed >= SLEEP_FOR
    /\ ~exit.exited

\* C20: without a job-name filter, a pass that fetched an empty listing
\* takes the branch for unknown statuses: the run ends in that pass with an
\* exception and exit status 1, not in success, and no job id is handed to
\* get_artifacts_urls and no artifact query issued.
C20_EmptyListingFails ==
    (branch # "none" /\ job_ids = <<>>) =>
        /\ config.job_name = ""
        /\ branch = "TypeError"
        /\ pc = "done"
        /\ outcome \notin {"none", "return"}
        /\ exit.exited /\ exit.status = 1
        /\ job_arg = <<>> /\ nArtifacts = 0
        /\ requests[Len(requests)].kind = "build"
        /\ ~ENABLED Next

\* The second pass of the while loop fetched an empty listing.
C20_Witness ==
    /\ nBuild = 2 /\ branch = "TypeError" /\ job_ids = <<>>
    /\ pc = "done" /\ exit.status = 1

====
